---- MODULE Spec2Model ----
(***************************************************************************)
(* A model of src/main.py: the quote normalizer (normalize_quote), the     *)
(* single-quote handler (get_quote) and the batch handler (get_tickers).   *)
(*                                                                         *)
(* Python values are tagged pairs <<tag, payload>>.  Text (a symbol, a     *)
(* provider identifier, a JSON string) is a sequence of one-character      *)
(* strings, so that upper(), lower(), strip() and float() are computed     *)
(* character by character.  Dictionary keys, exception type names and      *)
(* fixed message texts are atomic strings.  A float is modelled at integer *)
(* resolution, extended by the two infinities and NaN.                     *)
(***************************************************************************)
EXTENDS Integers, Sequences, FiniteSets, TLC

VARIABLES
  pc,       \* "called" while the operation of req runs, "returned" after it
  req,      \* the operation called and its arguments
  env,      \* the process environment (os.environ)
  binding,  \* what the module-level name get_quote is bound to
  net,      \* what the provider answers to each outbound call
  resp,     \* the outcome of the operation
  calls     \* the outbound calls the operation issued, in order

vars == <<pc, req, env, binding, net, resp, calls>>

(***************************************************************************)
(* Bounds of the model.                                                    *)
(***************************************************************************)
\* JSON numbers of a payload range over 0..MaxNum.
MaxNum == 1
\* Length of the comma-separated `symbols` text of a batch request.
MaxSymbolsLen == 3

(***************************************************************************)
(* Python values.                                                          *)
(***************************************************************************)
None == <<"none", 0>>
Num(n) == <<"num", n>>
PosInf == <<"inf", 1>>
NegInf == <<"inf", -1>>
NaN == <<"nan", 0>>
Str(s) == <<"str", s>>
Dict(f) == <<"dict", f>>
List(l) == <<"list", l>>
\* The evaluation raised an exception (inside a try block that treats every
\* exception alike).
Raised == <<"raise", 0>>

Tag(v) == v[1]
Val(v) == v[2]

IsRaised(v) == Tag(v) = "raise"

EmptyDict == Dict(<<>>)

IsFloat(v) == Tag(v) \in {"num", "inf", "nan"}

\* bool(v)
Truthy(v) ==
  CASE Tag(v) = "none" -> FALSE
    [] Tag(v) = "num" -> Val(v) # 0
    [] Tag(v) = "str" -> Len(Val(v)) > 0
    [] Tag(v) = "dict" -> DOMAIN Val(v) # {}
    [] Tag(v) = "list" -> Len(Val(v)) > 0
    [] OTHER -> TRUE

\* x or d
Or(x, d) == IF IsRaised(x) THEN Raised ELSE IF Truthy(x) THEN x ELSE d

\* d.get(k, default); AttributeError when d is no dict
Get(d, k, default) ==
  IF Tag(d) # "dict" THEN Raised
  ELSE IF k \in DOMAIN Val(d) THEN Val(d)[k] ELSE default

\* v[0]: IndexError, KeyError (JSON keys are text) or TypeError otherwise
Index0(v) ==
  CASE Tag(v) = "list" /\ Len(Val(v)) > 0 -> Val(v)[1]
    [] Tag(v) = "str" /\ Len(Val(v)) > 0 -> Str(<<Val(v)[1]>>)
    [] OTHER -> Raised

(***************************************************************************)
(* Text.                                                                   *)
(***************************************************************************)
LowerLetters ==
  <<"a","b","c","d","e","f","g","h","i","j","k","l","m",
    "n","o","p","q","r","s","t","u","v","w","x","y","z">>
UpperLetters ==
  <<"A","B","C","D","E","F","G","H","I","J","K","L","M",
    "N","O","P","Q","R","S","T","U","V","W","X","Y","Z">>
Digits == <<"0","1","2","3","4","5","6","7","8","9">>
Whitespace == {" ", "\t", "\n", "\r"}

IndexIn(c, table) == CHOOSE i \in DOMAIN table : table[i] = c
InTable(c, table) == \E i \in DOMAIN table : table[i] = c

UpperChar(c) == IF InTable(c, LowerLetters) THEN UpperLetters[IndexIn(c, LowerLetters)] ELSE c
LowerChar(c) == IF InTable(c, UpperLetters) THEN LowerLetters[IndexIn(c, UpperLetters)] ELSE c

\* str.upper(), str.lower()
Upper(s) == [i \in DOMAIN s |-> UpperChar(s[i])]
Lower(s) == [i \in DOMAIN s |-> LowerChar(s[i])]

RECURSIVE LStrip(_, _)
LStrip(s, chars) ==
  IF Len(s) > 0 /\ s[1] \in chars THEN LStrip(Tail(s), chars) ELSE s

RECURSIVE RStrip(_, _)
RStrip(s, chars) ==
  IF Len(s) > 0 /\ s[Len(s)] \in chars THEN RStrip(SubSeq(s, 1, Len(s) - 1), chars) ELSE s

\* str.strip(chars)
Strip(s, chars) == RStrip(LStrip(s, chars), chars)

\* v.strip("%"): AttributeError unless v is text
StripPercent(v) ==
  IF Tag(v) = "str" THEN Str(Strip(Val(v), {"%"})) ELSE Raised

RECURSIVE DecimalValue(_)
DecimalValue(s) ==
  IF Len(s) = 0 THEN 0
  ELSE 10 * DecimalValue(SubSeq(s, 1, Len(s) - 1)) + (IndexIn(s[Len(s)], Digits) - 1)

\* float(v): a number is kept, text is parsed after trimming whitespace
\* (ValueError when it is no numeral), anything else is a TypeError
PyFloat(v) ==
  CASE IsFloat(v) -> v
    [] Tag(v) = "str" ->
         LET t == Strip(Val(v), Whitespace) IN
         IF Len(t) > 0 /\ \A i \in DOMAIN t : InTable(t[i], Digits)
         THEN Num(DecimalValue(t)) ELSE Raised
    [] OTHER -> Raised

(***************************************************************************)
(* Float arithmetic of the polygon branch.                                 *)
(***************************************************************************)
FNeg(a) ==
  CASE Tag(a) = "num" -> Num(0 - Val(a))
    [] Tag(a) = "inf" -> <<"inf", 0 - Val(a)>>
    [] OTHER -> a

FAdd(a, b) ==
  CASE IsRaised(a) \/ IsRaised(b) -> Raised
    [] Tag(a) = "nan" \/ Tag(b) = "nan" -> NaN
    [] Tag(a) = "inf" /\ Tag(b) = "inf" -> IF Val(a) = Val(b) THEN a ELSE NaN
    [] Tag(a) = "inf" -> a
    [] Tag(b) = "inf" -> b
    [] OTHER -> Num(Val(a) + Val(b))

FSub(a, b) == IF IsRaised(b) THEN Raised ELSE FAdd(a, FNeg(b))

Sign(n) == IF n > 0 THEN 1 ELSE IF n < 0 THEN -1 ELSE 0

\* (a / b) * 100: ZeroDivisionError on a zero divisor; a finite quotient is
\* kept at integer resolution after the scaling by 100
FDivTimes100(a, b) ==
  CASE IsRaised(a) \/ IsRaised(b) -> Raised
    [] Tag(a) = "nan" \/ Tag(b) = "nan" -> NaN
    [] Tag(a) = "inf" /\ Tag(b) = "inf" -> NaN
    [] Tag(b) = "inf" -> Num(0)
    [] Tag(b) = "num" /\ Val(b) = 0 -> Raised
    [] Tag(a) = "inf" -> <<"inf", Val(a) * Sign(Val(b))>>
    [] OTHER -> Num((Val(a) * 100) \div Val(b))

\* prev == 0
IsZero(a) == Tag(a) = "num" /\ Val(a) = 0

(***************************************************************************)
(* Provider identifiers.                                                   *)
(***************************************************************************)
alpha_vantage == <<"a","l","p","h","a","_","v","a","n","t","a","g","e">>
finnhub == <<"f","i","n","n","h","u","b">>
twelve == <<"t","w","e","l","v","e">>
polygon == <<"p","o","l","y","g","o","n">>
fmp == <<"f","m","p">>

Providers == {alpha_vantage, finnhub, twelve, polygon, fmp}

(***************************************************************************)
(* normalize_quote                                                         *)
(***************************************************************************)
NumericFields == {"price", "changePercent", "open", "high", "low", "previousClose"}

\* The dict literal of a provider branch: an exception raised while one of
\* its values is evaluated leaves the try block.
Quote(base, price, changePercent, open, high, low, previousClose, timestamp) ==
  IF \/ IsRaised(price) \/ IsRaised(changePercent) \/ IsRaised(open)
     \/ IsRaised(high) \/ IsRaised(low) \/ IsRaised(previousClose)
     \/ IsRaised(timestamp)
  THEN Raised
  ELSE <<"quote",
         [symbol |-> base.symbol, provider |-> base.provider,
          price |-> price, changePercent |-> changePercent,
          open |-> open, high |-> high, low |-> low,
          previousClose |-> previousClose, timestamp |-> timestamp]>>

AlphaVantageBranch(base, raw) ==
  LET gq == Get(raw, "Global Quote", EmptyDict) IN
  IF IsRaised(gq) THEN Raised
  ELSE Quote(base,
         PyFloat(Or(Get(gq, "05. price", Num(0)), Num(0))),
         PyFloat(StripPercent(Or(Get(gq, "10. change percent", Str(<<"0", "%">>)), Str(<<"0">>)))),
         PyFloat(Or(Get(gq, "02. open", Num(0)), Num(0))),
         PyFloat(Or(Get(gq, "03. high", Num(0)), Num(0))),
         PyFloat(Or(Get(gq, "04. low", Num(0)), Num(0))),
         PyFloat(Or(Get(gq, "08. previous close", Num(0)), Num(0))),
         Get(gq, "07. latest trading day", None))

FinnhubBranch(base, raw) ==
  Quote(base,
    PyFloat(Or(Get(raw, "c", None), Num(0))),
    PyFloat(Or(Get(raw, "dp", None), Num(0))),
    PyFloat(Or(Get(raw, "o", None), Num(0))),
    PyFloat(Or(Get(raw, "h", None), Num(0))),
    PyFloat(Or(Get(raw, "l", None), Num(0))),
    PyFloat(Or(Get(raw, "pc", None), Num(0))),
    Get(raw, "t", None))

TwelveBranch(base, raw) ==
  Quote(base,
    PyFloat(Or(Get(raw, "price", None), Num(0))),
    PyFloat(Or(Get(raw, "percent_change", None), Num(0))),
    PyFloat(Or(Get(raw, "open", None), Num(0))),
    PyFloat(Or(Get(raw, "high", None), Num(0))),
    PyFloat(Or(Get(raw, "low", None), Num(0))),
    PyFloat(Or(Get(raw, "previous_close", None), Num(0))),
    Get(raw, "timestamp", None))

\* the previous close read from another key than the close
PolygonPrev_open(res0) == PyFloat(Or(Get(res0, "o", None), Num(0)))

\* prev = float(res0.get("c") or 0)
PolygonPrev(res0) == PyFloat(Or(Get(res0, "c", None), Num(0)))

\* 0.0 if prev == 0 else ((close - prev) / prev) * 100
PolygonChangePercent(close, prev) ==
  IF IsRaised(close) \/ IsRaised(prev) THEN Raised
  ELSE IF IsZero(prev) THEN Num(0) ELSE FDivTimes100(FSub(close, prev), prev)

PolygonBranch(base, raw) ==
  LET res0 == Index0(Or(Get(raw, "results", None), List(<<EmptyDict>>))) IN
  IF IsRaised(res0) THEN Raised
  ELSE LET close == PyFloat(Or(Get(res0, "c", None), Num(0)))
           open_ == PyFloat(Or(Get(res0, "o", None), Num(0)))
           high == PyFloat(Or(Get(res0, "h", None), Num(0)))
           low == PyFloat(Or(Get(res0, "l", None), Num(0)))
           prev == PolygonPrev(res0)
       IN Quote(base, close, PolygonChangePercent(close, prev),
                open_, high, low, prev, Get(res0, "t", None))

\* the fmp branch without the "or 0" of its pass-through fields
FmpBranch_unguarded(base, raw) ==
  LET res0 == Index0(Or(raw, List(<<EmptyDict>>))) IN
  IF IsRaised(res0) THEN Raised
  ELSE Quote(base,
         PyFloat(Or(Get(res0, "price", None), Num(0))),
         Num(0),
         Get(res0, "open", None),
         Get(res0, "dayHigh", None),
         Get(res0, "dayLow", None),
         Get(res0, "previousClose", None),
         Or(Get(res0, "timestamp", None), None))

FmpBranch(base, raw) ==
  LET res0 == Index0(Or(raw, List(<<EmptyDict>>))) IN
  IF IsRaised(res0) THEN Raised
  ELSE Quote(base,
         PyFloat(Or(Get(res0, "price", None), Num(0))),
         Num(0),
         Or(Get(res0, "open", None), Num(0)),
         Or(Get(res0, "dayHigh", None), Num(0)),
         Or(Get(res0, "dayLow", None), Num(0)),
         Or(Get(res0, "previousClose", None), Num(0)),
         Or(Get(res0, "timestamp", None), None))

\* return {**base, "price": 0.0, "changePercent": 0.0}
Fallback(base) ==
  [symbol |-> base.symbol, provider |-> base.provider,
   price |-> Num(0), changePercent |-> Num(0)]

\* The try block: <<"quote", record>> returned by the provider's branch,
\* Raised when the branch raised, NoBranch when no branch matches.
NoBranch == <<"nobranch", 0>>

TryBranch(base, provider, raw) ==
  CASE provider = alpha_vantage -> AlphaVantageBranch(base, raw)
    [] provider = finnhub -> FinnhubBranch(base, raw)
    [] provider = twelve -> TwelveBranch(base, raw)
    [] provider = polygon -> PolygonBranch(base, raw)
    [] provider = fmp -> FmpBranch(base, raw)
    [] OTHER -> NoBranch

\* The outcome of a call: it returns a value or it raises an exception.
Return(v) == <<"return", v>>
Raise(e) == <<"raise", e>>

NoValue == <<"novalue", 0>>

\* A response of the provider: its status and its body.
NoResponse == [kind |-> "none", error |-> "", status |-> 0, body |-> NoValue]

\* An exception: its type, the fields of an HTTPException (status_code,
\* detail) and the response of a requests.HTTPError.
Exc(type, status_code, detail, response) ==
  [type |-> type, status_code |-> status_code, detail |-> detail,
   response |-> response]

Base(symbol, provider) == [symbol |-> Upper(symbol), provider |-> provider]

\* normalize_quote without the except clause of its try block
normalize_quote_uncaught(symbol, provider, raw) ==
  LET base == Base(symbol, provider)
      r == TryBranch(base, provider, raw)
  IN IF Tag(r) = "quote" THEN Return(Val(r))
     ELSE IF IsRaised(r) THEN Raise(Exc("ValueError", 0, <<>>, NoResponse))
     ELSE Return(Fallback(base))

normalize_quote(symbol, provider, raw) ==
  LET base == Base(symbol, provider)
      r == TryBranch(base, provider, raw)
  IN IF Tag(r) = "quote" THEN Return(Val(r)) ELSE Return(Fallback(base))

(***************************************************************************)
(* Inputs of normalize_quote: provider payloads.                           *)
(***************************************************************************)
\* The keys of a provider's quote object, in the order price, change
\* percent, open, high, low, previous close, timestamp.  Where the code reads
\* no key for a field, the slot holds a key of the provider's payload that
\* the code does not read.
PayloadKeys(provider) ==
  CASE provider = alpha_vantage ->
         <<"05. price", "10. change percent", "02. open", "03. high",
           "04. low", "08. previous close", "07. latest trading day">>
    [] provider = twelve ->
         <<"price", "percent_change", "open", "high", "low",
           "previous_close", "timestamp">>
    [] provider = polygon -> <<"c", "vw", "o", "h", "l", "v", "t">>
    [] provider = fmp ->
         <<"price", "volume", "open", "dayHigh", "dayLow",
           "previousClose", "timestamp">>
    [] OTHER -> <<"c", "dp", "o", "h", "l", "pc", "t">>

Slots == 1..7

\* The key is missing from the object.
Absent == <<"absent", 0>>

SampleTexts == {<<>>, <<"0">>, <<"1">>, <<"1", "%">>, <<"x">>, <<" ", "1">>}

\* What a JSON object can hold under one key.
FieldValues ==
  {None, PosInf, EmptyDict, List(<<Num(1)>>)}
    \cup {Num(n) : n \in 0..MaxNum}
    \cup {Str(t) : t \in SampleTexts}

\* All keys missing or all keys numeric, with at most one slot replaced by
\* any value.
SlotValues ==
  {[i \in Slots |-> IF i = j THEN v ELSE b] :
     j \in Slots, v \in FieldValues \cup {Absent}, b \in {Absent, Num(MaxNum)}}

QuoteObject(keys, vals) ==
  Dict([k \in {keys[i] : i \in {j \in Slots : vals[j] # Absent}} |->
          vals[IndexIn(k, keys)]])

\* The containers a decoded response body can wrap the quote object in.
Shapes == {"object", "global_quote", "global_quote_null", "results",
           "results_empty", "list", "list_empty", "list_of_numbers", "null"}

Payload(shape, inner) ==
  CASE shape = "object" -> inner
    [] shape = "global_quote" -> Dict([k \in {"Global Quote"} |-> inner])
    [] shape = "global_quote_null" -> Dict([k \in {"Global Quote"} |-> None])
    [] shape = "results" -> Dict([k \in {"results"} |-> List(<<inner>>)])
    [] shape = "results_empty" -> Dict([k \in {"results"} |-> List(<<>>)])
    [] shape = "list" -> List(<<inner>>)
    [] shape = "list_empty" -> List(<<>>)
    [] shape = "list_of_numbers" -> List(<<Num(1)>>)
    [] OTHER -> None

\* The container each provider's branch expects.
ExpectedShape(provider) ==
  CASE provider = alpha_vantage -> "global_quote"
    [] provider = polygon -> "results"
    [] provider = fmp -> "list"
    [] OTHER -> "object"

unknown == <<"u","n","k","n","o","w","n">>

NormalizeProviders == Providers \cup {unknown, Upper(finnhub)}

SampleSymbols == {<<"t","s","l","a">>, <<"N","S","E",":","t","c","s">>}

(***************************************************************************)
(* normalize_quote applied to every input.                                 *)
(***************************************************************************)
InitNormalize ==
  /\ pc = "called"
  /\ \E symbol \in SampleSymbols, provider \in NormalizeProviders,
        shape \in Shapes, vals \in SlotValues :
       req = [op |-> "normalize_quote", symbol |-> symbol, provider |-> provider,
              shape |-> shape, vals |-> vals,
              raw |-> Payload(shape, QuoteObject(PayloadKeys(provider), vals))]
  /\ env = NoValue
  /\ binding = NoValue
  /\ net = NoValue
  /\ resp = NoValue
  /\ calls = <<>>

Normalize ==
  /\ pc = "called"
  /\ req.op = "normalize_quote"
  /\ resp' = normalize_quote(req.symbol, req.provider, req.raw)
  /\ pc' = "returned"
  /\ UNCHANGED <<req, env, binding, net, calls>>

NextNormalize == Normalize

SpecNormalize == InitNormalize /\ [][NextNormalize]_vars

(***************************************************************************)
(* get_quote                                                               *)
(***************************************************************************)
EnvVars == {"ALPHA_VANTAGE_API_KEY", "FINNHUB_API_KEY", "TWELVE_DATA_API_KEY",
            "POLYGON_API_KEY", "FMP_API_KEY"}

\* The environment variable each branch looks up.
EnvVar(provider) ==
  CASE provider = alpha_vantage -> "ALPHA_VANTAGE_API_KEY"
    [] provider = finnhub -> "FINNHUB_API_KEY"
    [] provider = twelve -> "TWELVE_DATA_API_KEY"
    [] provider = polygon -> "POLYGON_API_KEY"
    [] OTHER -> "FMP_API_KEY"

\* os.getenv(name): the value, None when the variable is unset
_get_env(environ, name) == environ[name]

\* the credential check forgotten
KeyMissing_never(key) == FALSE

\* not key
KeyMissing(key) == ~Truthy(key)

\* The arguments of requests.get(url, params=params, timeout=15).
Request(provider, symbol, key) ==
  CASE provider = alpha_vantage ->
         [provider |-> provider,
          url |-> <<"https://www.alphavantage.co/query">>,
          params |-> <<"function", <<"GLOBAL_QUOTE">>, "symbol", symbol, "apikey", key>>,
          timeout |-> 15]
    [] provider = finnhub ->
         [provider |-> provider,
          url |-> <<"https://finnhub.io/api/v1/quote">>,
          params |-> <<"symbol", symbol, "token", key>>,
          timeout |-> 15]
    [] provider = twelve ->
         [provider |-> provider,
          url |-> <<"https://api.twelvedata.com/quote">>,
          params |-> <<"symbol", symbol, "apikey", key>>,
          timeout |-> 15]
    [] provider = polygon ->
         [provider |-> provider,
          url |-> <<"https://api.polygon.io/v2/aggs/ticker/", symbol, "/prev">>,
          params |-> <<"adjusted", <<"true">>, "apiKey", key>>,
          timeout |-> 15]
    [] OTHER ->
         [provider |-> provider,
          url |-> <<"https://financialmodelingprep.com/api/v3/quote-short/", symbol>>,
          params |-> <<"apikey", key>>,
          timeout |-> 15]

\* r.raise_for_status() raises requests.HTTPError for a 4xx or 5xx status
RaisesForStatus(r) == r.kind = "response" /\ r.status >= 400 /\ r.status < 600

\* bool(e.response): None is false, and a Response is true exactly when
\* raise_for_status() would not raise
ResponseTruthy(r) == r.kind = "response" /\ ~RaisesForStatus(r)

\* The body no JSON decoder accepts.
Undecodable == <<"undecodable", 0>>

\* r = requests.get(...); r.raise_for_status(); data = r.json()
Fetch(answer) ==
  IF answer.kind = "transport"
  THEN Raise(Exc(answer.error, 0, <<>>, NoResponse))
  ELSE IF RaisesForStatus(answer)
  THEN Raise(Exc("HTTPError", 0, <<>>, answer))
  ELSE IF Tag(answer.body) = "undecodable"
  THEN Raise(Exc("JSONDecodeError", 0, <<>>, NoResponse))
  ELSE Return(answer.body)

HTTPException(status_code, detail) ==
  Exc("HTTPException", status_code, detail, NoResponse)

\* The except clauses of get_quote.
Except(outcome) ==
  IF Tag(outcome) = "return" THEN outcome
  ELSE LET e == Val(outcome) IN
       CASE e.type = "HTTPException" -> outcome
         [] e.type = "HTTPError" ->
              Raise(HTTPException(
                IF ResponseTruthy(e.response) THEN e.response.status ELSE 502,
                <<"str(e)", e.type>>))
         [] OTHER -> Raise(HTTPException(500, <<"str(e)", e.type>>))

\* The outcome of get_quote and the outbound calls it issued.
get_quote(symbol, provider, environ, answer) ==
  LET p == Lower(provider)
      s == Upper(symbol)
  IN IF p \in Providers
     THEN LET key == _get_env(environ, EnvVar(p)) IN
          IF KeyMissing(key)
          THEN [out |-> Except(Raise(HTTPException(400, <<EnvVar(p), " not set">>))),
                calls |-> <<>>]
          ELSE LET data == Fetch(answer) IN
               [out |-> Except(IF Tag(data) = "return"
                               THEN normalize_quote(s, p, Val(data))
                               ELSE data),
                calls |-> <<Request(p, s, key)>>]
     ELSE [out |-> Except(Raise(HTTPException(400, <<"Unsupported provider">>))),
           calls |-> <<>>]

(***************************************************************************)
(* get_tickers                                                             *)
(***************************************************************************)
\* s.split(sep), from position i on
RECURSIVE SplitFrom(_, _, _, _)
SplitFrom(s, sep, i, token) ==
  IF i > Len(s) THEN <<token>>
  ELSE IF s[i] = sep THEN <<token>> \o SplitFrom(s, sep, i + 1, <<>>)
  ELSE SplitFrom(s, sep, i + 1, Append(token, s[i]))

Split(s, sep) == SplitFrom(s, sep, 1, <<>>)

RECURSIVE Unique(_)
Unique(l) ==
  IF Len(l) = 0 THEN <<>>
  ELSE LET rest == Unique(SubSeq(l, 1, Len(l) - 1)) IN
       IF \E i \in DOMAIN rest : rest[i] = l[Len(l)] THEN rest
       ELSE Append(rest, l[Len(l)])

NonBlank(t) == Len(Strip(t, Whitespace)) > 0

\* the symbol list with duplicates removed
Syms_deduplicated(symbols) ==
  LET kept == SelectSeq(Split(symbols, ","), NonBlank)
  IN Unique([i \in DOMAIN kept |-> Upper(Strip(kept[i], Whitespace))])

\* [s.strip().upper() for s in symbols.split(",") if s.strip()]
Syms(symbols) ==
  LET kept == SelectSeq(Split(symbols, ","), NonBlank)
  IN [i \in DOMAIN kept |-> Upper(Strip(kept[i], Whitespace))]

ErrorRecord(s, provider, error) ==
  [symbol |-> s, provider |-> provider, error |-> error]

\* get_quote.__wrapped__(s, provider): the attribute lookup raises
\* AttributeError when get_quote is bound to a plain function
CallWrapped(s, provider, environ, answer, bound) ==
  IF bound = "function"
  THEN [out |-> Raise(Exc("AttributeError", 0, <<>>, NoResponse)), calls |-> <<>>]
  ELSE get_quote(s, provider, environ, answer)

\* the loop body without its except clauses
Iteration_uncaught(s, provider, outcome) == outcome

\* The try statement of the loop body: what it appends to out, or the
\* exception that leaves it.
Iteration(s, provider, outcome) ==
  IF Tag(outcome) = "return" THEN outcome
  ELSE IF Val(outcome).type = "HTTPException"
  THEN Return(ErrorRecord(s, provider, Val(outcome).detail))
  ELSE Return(ErrorRecord(s, provider, <<"str(e)", Val(outcome).type>>))

\* for s in syms, from the i-th symbol on
RECURSIVE Loop(_, _, _, _, _, _, _, _)
Loop(syms, i, out, issued, provider, environ, answers, bound) ==
  IF i > Len(syms) THEN [out |-> Return([data |-> out]), calls |-> issued]
  ELSE LET c == CallWrapped(syms[i], provider, environ, answers[i], bound)
           r == Iteration(syms[i], provider, c.out)
       IN IF Tag(r) = "raise" THEN [out |-> r, calls |-> issued \o c.calls]
          ELSE Loop(syms, i + 1, Append(out, Val(r)), issued \o c.calls,
                    provider, environ, answers, bound)

\* The outcome of get_tickers and the outbound calls it issued; answers[i]
\* is the provider's answer to the call made for the i-th symbol.
get_tickers(symbols, provider, environ, answers, bound) ==
  Loop(Syms(symbols), 1, <<>>, <<>>, provider, environ, answers, bound)

(***************************************************************************)
(* Inputs of get_quote and get_tickers.                                    *)
(***************************************************************************)
\* A well-formed payload of each provider, every field MaxNum.
SamplePayload(provider) ==
  Payload(ExpectedShape(provider),
          QuoteObject(PayloadKeys(provider), [i \in Slots |-> Num(MaxNum)]))

Statuses == {200, 404, 429, 500, 503}

Response(status, body) ==
  [kind |-> "response", error |-> "", status |-> status, body |-> body]

Transport(error) ==
  [kind |-> "transport", error |-> error, status |-> 0, body |-> NoValue]

\* What the provider can answer to one call.
Answers(provider) ==
  {Transport(e) : e \in {"ConnectionError", "Timeout"}}
    \cup {Response(st, b) : st \in Statuses,
            b \in {SamplePayload(provider), EmptyDict, Undecodable}}

Environments == [EnvVars -> {None, Str(<<>>), Str(<<"k">>)}]

QuoteProviders == Providers \cup {unknown, Upper(finnhub), <<"F","m","p">>}

InitQuote ==
  /\ pc = "called"
  /\ \E symbol \in SampleSymbols, provider \in QuoteProviders :
       /\ req = [op |-> "get_quote", symbol |-> symbol, provider |-> provider]
       /\ net \in Answers(Lower(provider))
  /\ env \in Environments
  /\ binding = "function"
  /\ resp = NoValue
  /\ calls = <<>>

GetQuote ==
  /\ pc = "called"
  /\ req.op = "get_quote"
  /\ LET r == get_quote(req.symbol, req.provider, env, net) IN
       /\ resp' = r.out
       /\ calls' = r.calls
  /\ pc' = "returned"
  /\ UNCHANGED <<req, env, binding, net>>

NextQuote == GetQuote

SpecQuote == InitQuote /\ [][NextQuote]_vars

\* The texts of at most n characters over an alphabet.
RECURSIVE TextsUpTo(_, _)
TextsUpTo(alphabet, n) ==
  IF n = 0 THEN {<<>>}
  ELSE LET shorter == TextsUpTo(alphabet, n - 1) IN
       shorter \cup {Append(t, c) : t \in shorter, c \in alphabet}

SymbolsAlphabet == {",", " ", "a", "B"}

\* No text of MaxSymbolsLen characters holds more symbols.
MaxTokens == (MaxSymbolsLen + 1) \div 2

BatchProviders == {finnhub, Upper(finnhub), polygon, unknown}

BatchAnswers(provider) ==
  {Transport("ConnectionError"), Response(404, EmptyDict),
   Response(200, SamplePayload(provider))}

BatchEnvironments ==
  {[v \in EnvVars |-> None], [v \in EnvVars |-> Str(<<"k">>)]}

\* The route decorator's return value is bound to the name get_quote: the
\* function itself, or a wrapper carrying it as __wrapped__.
Bindings == {"function", "wrapper"}

InitTickers ==
  /\ pc = "called"
  /\ \E symbols \in TextsUpTo(SymbolsAlphabet, MaxSymbolsLen),
        provider \in BatchProviders :
       /\ req = [op |-> "get_tickers", symbols |-> symbols, provider |-> provider]
       /\ net \in [1..MaxTokens -> BatchAnswers(Lower(provider))]
  /\ env \in BatchEnvironments
  /\ binding \in Bindings
  /\ resp = NoValue
  /\ calls = <<>>

GetTickers ==
  /\ pc = "called"
  /\ req.op = "get_tickers"
  /\ LET r == get_tickers(req.symbols, req.provider, env, net, binding) IN
       /\ resp' = r.out
       /\ calls' = r.calls
  /\ pc' = "returned"
  /\ UNCHANGED <<req, env, binding, net>>

NextTickers == GetTickers

SpecTickers == InitTickers /\ [][NextTickers]_vars

(***************************************************************************)
(* Properties of get_quote (checked under SpecQuote).                      *)
(***************************************************************************)
QuoteReturned == pc = "returned" /\ req.op = "get_quote"

FailsWith(outcome, status_code) ==
  /\ Tag(outcome) = "raise"
  /\ Val(outcome).type = "HTTPException"
  /\ Val(outcome).status_code = status_code

\* C4: when the provider answers with a non-2xx status S, get_quote fails
\* with status code S.
C4_UpstreamStatusPropagated ==
  (QuoteReturned /\ Len(calls) > 0 /\ net.kind = "response"
     /\ ~(net.status >= 200 /\ net.status < 300)) =>
    FailsWith(resp, net.status)

\* The outbound call failed otherwise than by a 4xx/5xx response: the
\* transport failed, or the body of an accepted response does not decode.
TransportFailure ==
  \/ net.kind = "transport"
  \/ net.kind = "response" /\ ~RaisesForStatus(net) /\ Tag(net.body) = "undecodable"

\* C5: a transport failure of the outbound call other than a non-2xx
\* response makes get_quote fail with the generic upstream status 502, not
\* with the 500 of unexpected internal failures.
C5_TransportFailureIs502 ==
  (QuoteReturned /\ Len(calls) > 0 /\ TransportFailure) => FailsWith(resp, 502)

\* The credential variable of the selected provider is unset.
CredentialUnset(provider) == Tag(env[EnvVar(provider)]) = "none"

\* C6 as stated: a provider outside the five identifiers, or a supported
\* provider whose credential variable is unset, fails with status 400 and
\* no outbound call; a call is issued only after the credential was found.
C6_ValidationBeforeIO ==
  QuoteReturned =>
    /\ req.provider \notin Providers => (FailsWith(resp, 400) /\ calls = <<>>)
    /\ (req.provider \in Providers /\ CredentialUnset(req.provider)) =>
         (FailsWith(resp, 400) /\ calls = <<>>)
    /\ Len(calls) > 0 => Truthy(env[EnvVar(Lower(req.provider))])

\* C6 amended: the provider is compared after lower-casing.  A provider
\* that, lower-cased, is outside the five identifiers fails with status 400
\* "Unsupported provider"; a provider that, lower-cased, is supported and
\* whose credential variable is unset fails with status 400 naming the
\* variable; in both cases no outbound call is issued.  A call is issued
\* only for a supported provider whose credential was found, once, and it
\* carries that credential.
C6_ValidationBeforeIO_Lowercased ==
  QuoteReturned =>
    LET p == Lower(req.provider) IN
    /\ p \notin Providers =>
         /\ FailsWith(resp, 400)
         /\ Val(resp).detail = <<"Unsupported provider">>
         /\ calls = <<>>
    /\ (p \in Providers /\ CredentialUnset(p)) =>
         /\ FailsWith(resp, 400)
         /\ Val(resp).detail = <<EnvVar(p), " not set">>
         /\ calls = <<>>
    /\ Len(calls) > 0 =>
         /\ p \in Providers
         /\ Truthy(env[EnvVar(p)])
         /\ Len(calls) = 1
         /\ calls[1].provider = p
         /\ calls[1].params[Len(calls[1].params)] = env[EnvVar(p)]

\* polygon is requested with POLYGON_API_KEY unset while every other
\* credential is set: status 400 naming the variable, no call.
C6_Witness ==
  /\ QuoteReturned
  /\ req.provider = polygon
  /\ CredentialUnset(polygon)
  /\ \A v \in EnvVars \ {"POLYGON_API_KEY"} : Truthy(env[v])
  /\ FailsWith(resp, 400)
  /\ Val(resp).detail = <<"POLYGON_API_KEY", " not set">>
  /\ calls = <<>>

(***************************************************************************)
(* Properties of get_tickers (checked under SpecTickers).                  *)
(***************************************************************************)
TickersReturned == pc = "returned" /\ req.op = "get_tickers"

\* The outcome get_quote has for the i-th symbol of the batch.
SingleOutcome(i) ==
  get_quote(Syms(req.symbols)[i], req.provider, env, net[i]).out

\* What the batch is to hold for an outcome of get_quote.
ItemFor(s, outcome) ==
  IF Tag(outcome) = "return" THEN Val(outcome)
  ELSE ErrorRecord(s, req.provider, Val(outcome).detail)

\* C1: the batch result at each symbol's position is exactly the outcome
\* of get_quote for that symbol and provider: the canonical quote when the
\* fetch succeeds, the error record {symbol, provider, error} when it fails.
C1_BatchEqualsSingle ==
  TickersReturned =>
    /\ Tag(resp) = "return"
    /\ Len(Val(resp).data) = Len(Syms(req.symbols))
    /\ \A i \in DOMAIN Val(resp).data :
         Val(resp).data[i] = ItemFor(Syms(req.symbols)[i], SingleOutcome(i))

\* The tokens of the input, stated by the positions of its commas.
Boundaries(text) ==
  {0, Len(text) + 1} \cup {i \in DOMAIN text : text[i] = ","}

TokenAt(text, b) ==
  LET next == CHOOSE n \in Boundaries(text) :
                /\ n > b
                /\ \A m \in Boundaries(text) : m > b => n <= m
  IN SubSeq(text, b + 1, next - 1)

\* A token without its leading and trailing whitespace.
Trimmed(t) ==
  LET solid == {i \in DOMAIN t : t[i] \notin Whitespace} IN
  IF solid = {} THEN <<>>
  ELSE SubSeq(t, CHOOSE i \in solid : \A j \in solid : i <= j,
                 CHOOSE i \in solid : \A j \in solid : i >= j)

\* The starts of the tokens that are not empty after trimming.
SolidStarts(text) ==
  {b \in Boundaries(text) \ {Len(text) + 1} : Trimmed(TokenAt(text, b)) # <<>>}

\* The i-th such token, trimmed and upper-cased.
ExpectedSymbol(text, i) ==
  LET b == CHOOSE c \in SolidStarts(text) :
             Cardinality({d \in SolidStarts(text) : d <= c}) = i
  IN Upper(Trimmed(TokenAt(text, b)))

\* C2: the data list has exactly one result per input token that is
\* non-empty after trimming, in input order; the symbol of the i-th result
\* is the i-th such token trimmed and upper-cased; duplicates are kept.
C2_OneResultPerToken ==
  TickersReturned =>
    /\ Tag(resp) = "return"
    /\ Len(Val(resp).data) = Cardinality(SolidStarts(req.symbols))
    /\ \A i \in DOMAIN Val(resp).data :
         Val(resp).data[i].symbol = ExpectedSymbol(req.symbols, i)

\* "a,a": two results, both for A.
C2_Witness ==
  /\ TickersReturned
  /\ req.symbols = <<"a", ",", "a">>
  /\ Tag(resp) = "return"
  /\ Len(Val(resp).data) = 2
  /\ Val(resp).data[1].symbol = <<"A">>
  /\ Val(resp).data[2].symbol = <<"A">>

\* Processing the i-th symbol raises.
SymbolFails(i) ==
  binding = "function" \/ Tag(SingleOutcome(i)) = "raise"

IsErrorRecord(item, s) ==
  /\ DOMAIN item = {"symbol", "provider", "error"}
  /\ item.symbol = s
  /\ item.provider = req.provider

\* C3: get_tickers never ends with an error: whatever the symbols and the
\* provider, every failure raised while a symbol is processed becomes an
\* error record for that symbol in the data list, the next symbol is
\* processed, and {data: [...]} is returned.
C3_BatchNeverFails ==
  TickersReturned =>
    /\ Tag(resp) = "return"
    /\ DOMAIN Val(resp) = {"data"}
    /\ Len(Val(resp).data) = Len(Syms(req.symbols))
    /\ \A i \in DOMAIN Val(resp).data :
         SymbolFails(i) => IsErrorRecord(Val(resp).data[i], Syms(req.symbols)[i])
    /\ (binding = "wrapper" /\ Lower(req.provider) \in Providers
          /\ Truthy(env[EnvVar(Lower(req.provider))])) =>
         Len(calls) = Len(Syms(req.symbols))

\* The call for the first of two symbols fails in transport, the second
\* succeeds: an error record, then a quote.
C3_Witness ==
  /\ TickersReturned
  /\ binding = "wrapper"
  /\ Len(Syms(req.symbols)) = 2
  /\ net[1].kind = "transport"
  /\ Tag(SingleOutcome(1)) = "raise"
  /\ Tag(SingleOutcome(2)) = "return"
  /\ Tag(resp) = "return"
  /\ Len(Val(resp).data) = 2
  /\ IsErrorRecord(Val(resp).data[1], Syms(req.symbols)[1])
  /\ "price" \in DOMAIN Val(resp).data[2]
  /\ Len(calls) = 2

(***************************************************************************)
(* Properties of normalize_quote (checked under SpecNormalize).            *)
(***************************************************************************)
NormalizeReturned == pc = "returned" /\ req.op = "normalize_quote"

\* The try block of the call under inspection.
Extraction == TryBranch(Base(req.symbol, req.provider), req.provider, req.raw)

\* Equality of two values, of two floats (NaN equals nothing).
SameValue(a, b) == Tag(a) = Tag(b) /\ Val(a) = Val(b)
FloatEq(a, b) == Tag(a) # "nan" /\ SameValue(a, b)

MinimalKeys == {"symbol", "provider", "price", "changePercent"}

IsMinimalFallback(rec) ==
  /\ DOMAIN rec = MinimalKeys
  /\ rec.symbol = Upper(req.symbol)
  /\ rec.provider = req.provider
  /\ SameValue(rec.price, Num(0))
  /\ SameValue(rec.changePercent, Num(0))

\* C7: normalize_quote never fails outward: for every provider identifier
\* and every payload it returns a record with the upper-cased symbol, the
\* provider passed in, a price and a changePercent; whenever extraction
\* fails internally the record is exactly the minimal fallback
\* {symbol, provider, price: 0.0, changePercent: 0.0}.
C7_NormalizeNeverFails ==
  NormalizeReturned =>
    /\ Tag(resp) = "return"
    /\ Val(resp).symbol = Upper(req.symbol)
    /\ Val(resp).provider = req.provider
    /\ {"price", "changePercent"} \subseteq DOMAIN Val(resp)
    /\ IsRaised(Extraction) => IsMinimalFallback(Val(resp))

\* A supported provider's extraction failed (a list where an object is
\* expected) and the minimal fallback was returned.
C7_Witness ==
  /\ NormalizeReturned
  /\ req.provider = finnhub
  /\ req.shape = "list"
  /\ IsRaised(Extraction)
  /\ Tag(resp) = "return"
  /\ IsMinimalFallback(Val(resp))

FieldOfSlot == <<"price", "changePercent", "open", "high", "low", "previousClose">>

\* The slots whose key the provider's branch reads as a number.
ReadSlots(provider) ==
  CASE provider = polygon -> {1, 3, 4, 5}
    [] provider = fmp -> {1, 3, 4, 5, 6}
    [] OTHER -> 1..6

NonNull(rec, f) == f \in DOMAIN rec /\ Tag(rec[f]) # "none"

\* C8 as stated: every record normalize_quote returns, the fallback record
\* included, holds all six numeric fields, none of them null.
C8_AllNumericFieldsAlways ==
  NormalizeReturned =>
    /\ Tag(resp) = "return"
    /\ \A f \in NumericFields : NonNull(Val(resp), f)

\* C8 amended: a record built by a provider branch (supported provider,
\* extraction succeeded) holds all six numeric fields, none of them null,
\* with 0 for every field whose key the payload lacks; the fallback record
\* (unsupported provider or failed extraction) holds price and
\* changePercent only, both 0.0.
C8_NumericFieldsUnlessFallback ==
  NormalizeReturned =>
    /\ Tag(resp) = "return"
    /\ IF Tag(Extraction) = "quote"
       THEN /\ \A f \in NumericFields : NonNull(Val(resp), f)
            /\ req.shape = ExpectedShape(req.provider) =>
                 \A i \in ReadSlots(req.provider) :
                   Tag(req.vals[i]) = "absent" =>
                     SameValue(Val(resp)[FieldOfSlot[i]], Num(0))
       ELSE IsMinimalFallback(Val(resp))

\* An fmp payload without the optional keys: the four fields are 0.
C8_Witness ==
  /\ NormalizeReturned
  /\ req.provider = fmp
  /\ req.shape = "list"
  /\ req.vals[3] = Absent
  /\ Tag(resp) = "return"
  /\ Tag(Extraction) = "quote"
  /\ \A f \in NumericFields : NonNull(Val(resp), f)
  /\ SameValue(Val(resp).open, Num(0))

\* The coercion policy of the claim for one source value: 0 when absent,
\* null or empty, 0.0 when it does not parse, its numeric value otherwise
\* (alpha_vantage's change percent is parsed without its % sign).
Coerced(provider, slot, v) ==
  IF Tag(v) \in {"absent", "none"} \/ (Tag(v) = "str" /\ Len(Val(v)) = 0)
  THEN Num(0)
  ELSE LET f == IF provider = alpha_vantage /\ slot = 2
                THEN PyFloat(StripPercent(v)) ELSE PyFloat(v)
       IN IF IsRaised(f) THEN Num(0) ELSE f

\* C9: the coercion policy holds per field: for every supported provider
\* and every numeric field read from the payload, the returned field is the
\* coerced source value, whatever the other fields of the payload hold.
C9_PerFieldCoercion ==
  (NormalizeReturned /\ req.provider \in Providers
     /\ req.shape = ExpectedShape(req.provider)) =>
    /\ Tag(resp) = "return"
    /\ \A i \in ReadSlots(req.provider) :
         /\ FieldOfSlot[i] \in DOMAIN Val(resp)
         /\ SameValue(Val(resp)[FieldOfSlot[i]],
                      Coerced(req.provider, i, req.vals[i]))

PolygonReturned == NormalizeReturned /\ req.provider = polygon

\* The close of a polygon payload is a number.
NumericClose ==
  /\ req.shape = "results"
  /\ Tag(req.vals[1]) \in {"num", "inf"}

====
